---- MODULE Spec2Model ----
(***************************************************************************)
(* Netlist-to-graph transform and structural metrics of server.py:         *)
(* parse_yosys_json (ports and cells -> gates, gates -> wires) followed by *)
(* the statistics block of synthesize (gate breakdown, fan-out, the        *)
(* level-by-level depth computation).                                      *)
(*                                                                         *)
(* Encoding of the JSON document:                                          *)
(*   - a JSON object (dict) is a sequence of entries in insertion order;   *)
(*   - a bit is an integer; the constant literals "0", "1", "x", "z" of    *)
(*     the netlist are encoded as the integer -1, so that                  *)
(*     isinstance(bit, int) is  bit >= 0;                                  *)
(*   - a raw cell type is a sequence of tokens, a leading backslash being  *)
(*     a token of its own, so that lstrip is computed and not assumed.     *)
(* The netnames of the module only feed bit_to_net, which nothing reads;   *)
(* they are left out.                                                      *)
(***************************************************************************)
EXTENDS Integers, Sequences, FiniteSets, TLC

VARIABLES doc, pc, gates, wires, gate_breakdown, max_fanout,
          adjacency, in_degree, depth, queue, max_depth, enqueued, response

vars == <<doc, pc, gates, wires, gate_breakdown, max_fanout,
          adjacency, in_degree, depth, queue, max_depth, enqueued, response>>

(***************************************************************************)
(* Bounds of the input documents.                                          *)
(***************************************************************************)
MaxBit == 4

NetBits == 2..MaxBit

ConstLiteral == 0 - 1

PortNames == <<"a", "y">>

CellNames == <<"g1", "g2">>

(***************************************************************************)
(* Generic helpers.                                                        *)
(***************************************************************************)
Max(a, b) == IF a >= b THEN a ELSE b

Range(s) == {s[i] : i \in 1..Len(s)}

EmptyMap == [k \in {} |-> 0]

\* dict.get(key, default)
Get(d, k, default) == IF k \in DOMAIN d THEN d[k] ELSE default

\* d[k] = v on a dict
Put(d, k, v) == [x \in DOMAIN d \cup {k} |-> IF x = k THEN v ELSE d[x]]

\* F(v), with v evaluated once
Bind(v, F(_)) == CHOOSE r \in {F(x) : x \in {v}} : TRUE

\* "acc = init; for x in s: acc = Op(acc, x)", from position i on
RECURSIVE FoldFrom(_, _, _, _)
FoldFrom(Op(_, _), acc, s, i) ==
    IF i > Len(s) THEN acc
    ELSE Bind(Op(acc, s[i]), LAMBDA next : FoldFrom(Op, next, s, i + 1))

Fold(Op(_, _), init, s) ==
    Bind(s, LAMBDA sv : Bind(init, LAMBDA acc : FoldFrom(Op, acc, sv, 1)))

Concat(ss) == Fold(LAMBDA acc, x : acc \o x, <<>>, ss)

\* the distinct elements of s in order of first occurrence (dict key order)
KeyOrder(s) ==
    Fold(LAMBDA acc, x : IF x \in Range(acc) THEN acc ELSE Append(acc, x), <<>>, s)

(***************************************************************************)
(* parse_yosys_json: ports -> INPUT / OUTPUT gates.                        *)
(***************************************************************************)
IsInt(bit) == bit >= 0

Str(bit) == ToString(bit)

\* f"{port_name}{suffix}", idx counted from 0
GateId(port_name, idx, n) ==
    IF n > 1 THEN port_name \o "[" \o ToString(idx) \o "]" ELSE port_name

PortBitGate(port, i) ==
    LET bit     == port.bits[i]
        gate_id == GateId(port.name, i - 1, Len(port.bits))
    IN  IF ~IsInt(bit) THEN <<>>
        ELSE IF port.direction = "input"
             THEN << [id |-> gate_id, type |-> "INPUT",
                      inputs |-> <<>>, outputs |-> <<Str(bit)>>] >>
        ELSE IF port.direction = "output"
             THEN << [id |-> gate_id, type |-> "OUTPUT",
                      inputs |-> <<Str(bit)>>, outputs |-> <<>>] >>
        ELSE <<>>

PortGates(port) ==
    Concat([i \in 1..Len(port.bits) |-> PortBitGate(port, i)])

(***************************************************************************)
(* parse_yosys_json: cells -> gates.                                       *)
(***************************************************************************)
\* str.lstrip("\\") on a token sequence, joined back into one string
RECURSIVE Lstrip(_)
Lstrip(t) ==
    IF t = <<>> THEN ""
    ELSE IF Head(t) = "\\" THEN Lstrip(Tail(t))
    ELSE Fold(LAMBDA acc, token : acc \o token, "", t)

\* port_directions.get(conn_name, "input")
PinDirection(cell, conn_name) == Get(cell.port_directions, conn_name, "input")

\* the integer bits of one connection, as strings
RECURSIVE ConnBits(_)
ConnBits(bits) ==
    IF bits = <<>> THEN <<>>
    ELSE (IF IsInt(Head(bits)) THEN <<Str(Head(bits))>> ELSE <<>>)
         \o ConnBits(Tail(bits))

CellBits(cell, wantOutput) ==
    Concat([i \in 1..Len(cell.connections) |->
              LET c == cell.connections[i]
              IN  IF (PinDirection(cell, c.pin) = "output") = wantOutput
                  THEN ConnBits(c.bits) ELSE <<>>])

CellGate(cell) ==
    [id |-> cell.name, type |-> Lstrip(cell.type),
     inputs |-> CellBits(cell, FALSE), outputs |-> CellBits(cell, TRUE)]

BuildGates(module) ==
    Concat([i \in 1..Len(module.ports) |-> PortGates(module.ports[i])])
    \o [i \in 1..Len(module.cells) |-> CellGate(module.cells[i])]

(***************************************************************************)
(* parse_yosys_json: bit -> producing gate, then the wires.                *)
(***************************************************************************)
\* for gate in gates: for bit in outputs: bit_producers[bit] = gate["id"]
BitProducers(gs) ==
    Fold(LAMBDA d, gate : Fold(LAMBDA e, bit : Put(e, bit, gate.id), d, gate.outputs),
         EmptyMap, gs)

\* GateWires without "producer != gate['id']": a gate is wired to itself
GateWiresWithSelfLoops(gate, bit_producers) ==
    Concat([i \in 1..Len(gate.inputs) |->
              LET bit      == gate.inputs[i]
                  producer == Get(bit_producers, bit, "")
              IN  IF producer # ""
                  THEN << [from |-> producer, fromPort |-> "out_" \o bit,
                           to |-> gate.id, toPort |-> "in_" \o ToString(i - 1)] >>
                  ELSE <<>>])

\* GateWires without "if producer": a wire is drawn from a missing producer
GateWiresFromMissingProducer(gate, bit_producers) ==
    Concat([i \in 1..Len(gate.inputs) |->
              LET bit      == gate.inputs[i]
                  producer == Get(bit_producers, bit, "")
              IN  IF producer # gate.id
                  THEN << [from |-> producer, fromPort |-> "out_" \o bit,
                           to |-> gate.id, toPort |-> "in_" \o ToString(i - 1)] >>
                  ELSE <<>>])

\* None is modelled by the empty string, which "if producer" rejects as well
GateWires(gate, bit_producers) ==
    Concat([i \in 1..Len(gate.inputs) |->
              LET bit      == gate.inputs[i]
                  producer == Get(bit_producers, bit, "")
              IN  IF producer # "" /\ producer # gate.id
                  THEN << [from |-> producer, fromPort |-> "out_" \o bit,
                           to |-> gate.id, toPort |-> "in_" \o ToString(i - 1)] >>
                  ELSE <<>>])

BuildWires(gs) ==
    Bind(BitProducers(gs), LAMBDA bit_producers :
        Concat([i \in 1..Len(gs) |-> GateWires(gs[i], bit_producers)]))

ParseGates(d) == IF d.modules = <<>> THEN <<>> ELSE BuildGates(d.modules[1])

ParseWires(d) == IF d.modules = <<>> THEN <<>> ELSE Bind(ParseGates(d), BuildWires)

(***************************************************************************)
(* synthesize: gate breakdown and fan-out.                                 *)
(***************************************************************************)
GateBreakdown(gs) ==
    Fold(LAMBDA d, g : Put(d, g.type, Get(d, g.type, 0) + 1), EmptyMap, gs)

\* sum(1 for w in wires if w["from"] == g["id"])
Fanout(g, ws) == Cardinality({i \in 1..Len(ws) : ws[i].from = g.id})

MaxFanout(gs, ws) == Fold(LAMBDA m, g : Max(m, Fanout(g, ws)), 0, gs)

(***************************************************************************)
(* synthesize: adjacency, in-degree and the level-by-level traversal.      *)
(***************************************************************************)
GateIds(gs) == [i \in 1..Len(gs) |-> gs[i].id]

\* setdefault(g["id"], []) for the gates, then one append per wire
Adjacency(gs, ws) ==
    Fold(LAMBDA d, w : Put(d, w.from, Append(Get(d, w.from, <<>>), w.to)),
         [gid \in Range(GateIds(gs)) |-> <<>>], ws)

\* setdefault(g["id"], 0) for the gates, then one increment per wire
InDegree(gs, ws) ==
    Fold(LAMBDA d, w : Put(d, w.to, Get(d, w.to, 0) + 1),
         [gid \in Range(GateIds(gs)) |-> 0], ws)

\* [gid for gid, deg in in_degree.items() if deg == 0]
InitialQueue(gs, indeg) ==
    SelectSeq(KeyOrder(GateIds(gs)), LAMBDA gid : indeg[gid] = 0)

\* VisitNeighbor with "in_degree[neighbor] <= 1" for "== 0"
VisitNeighborEarly(st, gid, neighbor) ==
    LET d   == Max(st.depth[neighbor], st.depth[gid] + 1)
        deg == st.in_degree[neighbor] - 1
    IN  [depth     |-> Put(st.depth, neighbor, d),
         max_depth |-> Max(st.max_depth, d),
         in_degree |-> Put(st.in_degree, neighbor, deg),
         nxt       |-> IF deg <= 1 THEN Append(st.nxt, neighbor) ELSE st.nxt]

\* the body of "for neighbor in adjacency.get(gid, [])"
VisitNeighbor(st, gid, neighbor) ==
    LET d   == Max(st.depth[neighbor], st.depth[gid] + 1)
        deg == st.in_degree[neighbor] - 1
    IN  [depth     |-> Put(st.depth, neighbor, d),
         max_depth |-> Max(st.max_depth, d),
         in_degree |-> Put(st.in_degree, neighbor, deg),
         nxt       |-> IF deg = 0 THEN Append(st.nxt, neighbor) ELSE st.nxt]

\* "for neighbor in adjacency.get(gid, [])"
VisitNeighbors(st, gid, neighbors) ==
    Fold(LAMBDA s, neighbor : VisitNeighbor(s, gid, neighbor), st, neighbors)

\* the body of "while queue": "nxt = []; for gid in queue"
VisitQueue(st, adj, q) ==
    Fold(LAMBDA s, gid : VisitNeighbors(s, gid, Get(adj, gid, <<>>)),
         [st EXCEPT !.nxt = <<>>], q)

\* the whole "while queue" loop, from the first queue to the empty one
RECURSIVE BfsLoop(_, _, _)
BfsLoop(st, adj, q) ==
    IF q = <<>> THEN st
    ELSE Bind(VisitQueue(st, adj, q), LAMBDA level : BfsLoop(level, adj, level.nxt))

MaxDepth(gs, ws) ==
    LET adj   == Adjacency(gs, ws)
        indeg == InDegree(gs, ws)
    IN  BfsLoop([depth |-> [gid \in DOMAIN adj |-> 0], max_depth |-> 0,
                 in_degree |-> indeg, nxt |-> <<>>],
                adj, InitialQueue(gs, indeg)).max_depth

(***************************************************************************)
(* The input documents.                                                    *)
(***************************************************************************)
Optional(S) == {<<>>} \cup {<<x>> : x \in S}

\* port "a" is an input on bit 2; port "y" is an output of one net bit, or a
\* two-bit bus whose second bit is tied to a constant
PortA == {[name |-> PortNames[1], direction |-> "input", bits |-> <<2>>]}

PortY == {[name |-> PortNames[2], direction |-> "output", bits |-> bs]
            : bs \in {<<b>> : b \in NetBits} \cup {<<3, ConstLiteral>>}}

Ports == {<<>>} \cup {<<a>> : a \in PortA} \cup {<<a, y>> : a \in PortA, y \in PortY}

\* pin A is declared an input, pin B has no declared direction and may be
\* tied to a constant, pin Y is declared an output and may carry two bits
PinA == {<<[pin |-> "A", bits |-> <<b>>]>> : b \in NetBits}

PinB == Optional({[pin |-> "B", bits |-> <<b>>] : b \in NetBits \cup {ConstLiteral}})

PinY == {<<[pin |-> "Y", bits |-> <<b>>]>> : b \in NetBits}

PinYY == {<<[pin |-> "Y", bits |-> <<b, b + 1>>]>> : b \in 2..(MaxBit - 1)}

Directions == [pin \in {"A", "Y"} |-> IF pin = "A" THEN "input" ELSE "output"]

\* the first cell: two inputs, one or two output bits
FirstCells ==
    {[name |-> CellNames[1], type |-> <<"\\", "AND">>,
      connections |-> a \o b \o y, port_directions |-> Directions]
       : a \in PinA, b \in PinB, y \in PinY \cup PinYY}

\* the second cell: one input, one output; it may bear the name of port "a"
SecondCells ==
    {[name |-> n, type |-> <<"NOT">>,
      connections |-> a \o y, port_directions |-> Directions]
       : n \in {CellNames[2], PortNames[1]}, a \in PinA, y \in PinY}

Cells == {<<>>} \cup {<<c>> : c \in FirstCells}
         \cup {<<c, d>> : c \in FirstCells, d \in SecondCells}

(***************************************************************************)
(* The request: parse, statistics, traversal, response.                    *)
(***************************************************************************)
\* the Yosys run has left its netlist document in output.json
Init ==
    /\ \/ doc = [modules |-> <<>>]
       \/ \E ps \in Ports, cs \in Cells :
             doc = [modules |-> << [ports |-> ps, cells |-> cs] >>]
    /\ pc = "parse"
    /\ gates = <<>>
    /\ wires = <<>>
    /\ gate_breakdown = EmptyMap
    /\ max_fanout = 0
    /\ adjacency = EmptyMap
    /\ in_degree = EmptyMap
    /\ depth = EmptyMap
    /\ queue = <<>>
    /\ max_depth = 0
    /\ enqueued = <<>>
    /\ response = EmptyMap

Stats(gs, ws, breakdown, maxDepth, maxFanout) ==
    [totalGates    |-> Len(gs),
     gateBreakdown |-> breakdown,
     maxDepth      |-> maxDepth,
     maxFanout     |-> maxFanout,
     wireCount     |-> Len(ws)]

\* gates, wires = parse_yosys_json(json_output_path)
Parse ==
    /\ pc = "parse"
    /\ gates' = ParseGates(doc)
    /\ wires' = ParseWires(doc)
    /\ pc' = "stats"
    /\ UNCHANGED <<doc, gate_breakdown, max_fanout, adjacency, in_degree,
                   depth, queue, max_depth, enqueued, response>>

\* "Compute stats"
ComputeStats ==
    /\ pc = "stats"
    /\ gate_breakdown' = GateBreakdown(gates)
    /\ max_fanout' = MaxFanout(gates, wires)
    /\ pc' = "graph"
    /\ UNCHANGED <<doc, gates, wires, adjacency, in_degree, depth, queue,
                   max_depth, enqueued, response>>

\* adjacency, in_degree, depth and the first queue
BuildGraph ==
    /\ pc = "graph"
    /\ adjacency' = Adjacency(gates, wires)
    /\ in_degree' = InDegree(gates, wires)
    /\ depth' = [gid \in DOMAIN adjacency' |-> 0]
    /\ queue' = InitialQueue(gates, in_degree')
    /\ enqueued' = queue'
    /\ max_depth' = 0
    /\ pc' = "bfs"
    /\ UNCHANGED <<doc, gates, wires, gate_breakdown, max_fanout, response>>

\* one iteration of "while queue"
BfsLevel ==
    /\ pc = "bfs"
    /\ queue # <<>>
    /\ LET st == VisitQueue([depth |-> depth, max_depth |-> max_depth,
                             in_degree |-> in_degree, nxt |-> <<>>],
                            adjacency, queue)
       IN  /\ depth' = st.depth
           /\ max_depth' = st.max_depth
           /\ in_degree' = st.in_degree
           /\ queue' = st.nxt
           /\ enqueued' = enqueued \o st.nxt
    /\ UNCHANGED <<doc, pc, gates, wires, gate_breakdown, max_fanout,
                   adjacency, response>>

\* the loop has ended: stats and the response
Respond ==
    /\ pc = "bfs"
    /\ queue = <<>>
    /\ response' = [gates |-> gates, wires |-> wires,
                    stats |-> Stats(gates, wires, gate_breakdown, max_depth,
                                    max_fanout)]
    /\ pc' = "done"
    /\ UNCHANGED <<doc, gates, wires, gate_breakdown, max_fanout, adjacency,
                   in_degree, depth, queue, max_depth, enqueued>>

Next == Parse \/ ComputeStats \/ BuildGraph \/ BfsLevel \/ Respond

Spec == Init /\ [][Next]_vars

FairSpec == Spec /\ WF_vars(Next)

(***************************************************************************)
(* Vocabulary of the properties.  A node is a position of the gate list,   *)
(* a net is a bit string some node lists.                                  *)
(***************************************************************************)
Nodes == 1..Len(gates)

Nets == UNION {Range(gates[i].inputs) \cup Range(gates[i].outputs) : i \in Nodes}

Drivers(net) == {i \in Nodes : net \in Range(gates[i].outputs)}

Consumers(net) == {i \in Nodes : net \in Range(gates[i].inputs)}

RECURSIVE SumOver(_, _)
SumOver(S, f) ==
    IF S = {} THEN 0
    ELSE LET x == CHOOSE y \in S : TRUE IN f[x] + SumOver(S \ {x}, f)

MaxOver(S) == IF S = {} THEN 0 ELSE CHOOSE m \in S : \A x \in S : x <= m

Parsed == pc # "parse"

Done == pc = "done"

\* the node ids are pairwise distinct
DistinctIds == \A i, j \in Nodes : i # j => gates[i].id # gates[j].id

\* the node the last write of bit_producers[net] came from
LastDriver(net) == MaxOver(Drivers(net))

\* the input-list entries that get a wire
WiredEntries ==
    {e \in Nodes \X (1..3) :
        /\ e[2] <= Len(gates[e[1]].inputs)
        /\ LET net == gates[e[1]].inputs[e[2]]
           IN  /\ Drivers(net) # {}
               /\ gates[LastDriver(net)].id # gates[e[1]].id}

C6_UniqueNodeIds == Parsed => DistinctIds

\* C4: when two or more nodes (of different ids) list the same net among
\* their outputs, the response is an error naming them, and no wire is drawn
\* from one of them for that net.
C4_DriverConflictReported ==
    Done =>
        \A net \in Nets :
            Cardinality({gates[i].id : i \in Drivers(net)}) >= 2 =>
                /\ "error" \in DOMAIN response
                /\ \A k \in 1..Len(wires) : wires[k].fromPort # "out_" \o net

\* C7: a cell input on a net that no node produces (floating input) leaves no
\* wire for that net, the cell's gate keeps the net in its input list, and the
\* response is the regular one.
C7_FloatingInputKept ==
    (Parsed /\ doc.modules # <<>>) =>
        LET module == doc.modules[1]
            first  == Len(gates) - Len(module.cells)
        IN  \A k \in 1..Len(module.cells) :
              LET cell == module.cells[k]
              IN  \A j \in 1..Len(cell.connections) :
                    LET c == cell.connections[j]
                    IN  \A b \in Range(c.bits) :
                          ( /\ IsInt(b)
                            /\ PinDirection(cell, c.pin) # "output"
                            /\ Drivers(Str(b)) = {} ) =>
                              /\ gates[first + k].id = cell.name
                              /\ Str(b) \in Range(gates[first + k].inputs)
                              /\ \A w \in 1..Len(wires) :
                                    wires[w].fromPort # "out_" \o Str(b)
                              /\ Done => /\ DOMAIN response = {"gates", "wires", "stats"}
                                         /\ response.gates = gates
                                         /\ response.stats.wireCount = Len(wires)

\* C7 witness: the response for a document with a floating cell input next to
\* a resolved one.
C7_Witness ==
    /\ Done
    /\ DistinctIds
    /\ wires # <<>>
    /\ \E i \in Nodes : gates[i].type \notin {"INPUT", "OUTPUT"}
                        /\ \E net \in Range(gates[i].inputs) : Drivers(net) = {}

\* C8: gateBreakdown counts the nodes that are neither INPUT nor OUTPUT, by
\* type, and totalGates is their number (stated for graphs of distinct ids, so
\* that a failure owes nothing to C6).
C8_GateBreakdownExcludesPorts ==
    (Done /\ DistinctIds) =>
        LET logic == {i \in Nodes : gates[i].type \notin {"INPUT", "OUTPUT"}}
        IN  /\ response.stats.totalGates = Cardinality(logic)
            /\ response.stats.gateBreakdown =
                 [t \in {gates[i].type : i \in logic} |->
                    Cardinality({i \in logic : gates[i].type = t})]

\* C3: maxFanout is the maximum over all nets of the number of consumer nodes
\* of that one net, 0 without nets (stated for graphs of distinct ids, so that
\* a failure owes nothing to C6).
C3_MaxFanoutPerNet ==
    (Done /\ DistinctIds) =>
        response.stats.maxFanout = MaxOver({Cardinality(Consumers(n)) : n \in Nets})

(***************************************************************************)
(* Combinational depth as the specification defines it.                    *)
(***************************************************************************)
RegisterTypes == {"DFF", "DFFE", "DLATCH"}

Combinational ==
    {i \in Nodes : gates[i].type \notin {"INPUT", "OUTPUT"} \cup RegisterTypes}

\* the non-boundary nodes driving one of the input nets of node i
DriverPreds(i) ==
    {j \in Combinational : \E net \in Range(gates[i].inputs) : j \in Drivers(net)}

\* the non-boundary nodes a wire leads from to node i
WirePreds(i) ==
    {j \in Combinational :
        \E k \in 1..Len(wires) : /\ wires[k].from = gates[j].id
                                 /\ wires[k].to = gates[i].id}

\* the number of nodes of the longest path of at most k nodes ending in i
RECURSIVE DriverPath(_, _)
DriverPath(i, k) ==
    IF k = 0 THEN 0 ELSE 1 + MaxOver({DriverPath(j, k - 1) : j \in DriverPreds(i)})

RECURSIVE WirePath(_, _)
WirePath(i, k) ==
    IF k = 0 THEN 0 ELSE 1 + MaxOver({WirePath(j, k - 1) : j \in WirePreds(i)})

DriverAcyclic ==
    \A i \in Combinational :
        DriverPath(i, Cardinality(Combinational) + 1) <= Cardinality(Combinational)

WireCycle ==
    \E i \in Combinational :
        WirePath(i, Cardinality(Combinational) + 1) > Cardinality(Combinational)

\* C2: for an acyclic combinational subgraph, maxDepth is the number of nodes
\* of the longest path of non-boundary nodes, 0 without such nodes (stated for
\* graphs of distinct ids, so that a failure owes nothing to C6).
C2_MaxDepthIsLongestCombinationalPath ==
    (Done /\ DistinctIds /\ DriverAcyclic) =>
        response.stats.maxDepth =
            MaxOver({DriverPath(i, Cardinality(Combinational)) : i \in Combinational})

\* C5: when the wires among the non-boundary nodes contain a cycle, the
\* response carries an error for maxDepth and no numeric maxDepth (stated for
\* graphs of distinct ids, so that a failure owes nothing to C6).
C5_CycleReported ==
    (Done /\ DistinctIds /\ WireCycle) =>
        /\ "error" \in DOMAIN response.stats
        /\ response.stats.maxDepth \notin Nat

(***************************************************************************)
(* The same document with its ports and its cells listed in another order. *)
(***************************************************************************)
Perms(n) == {f \in [1..n -> 1..n] : \A i, j \in 1..n : i # j => f[i] # f[j]}

Reorderings(d) ==
    IF d.modules = <<>> THEN {d}
    ELSE LET m == d.modules[1]
         IN  {[modules |-> << [ports |-> [i \in 1..Len(m.ports) |-> m.ports[f[i]]],
                               cells |-> [i \in 1..Len(m.cells) |-> m.cells[g[i]]]] >>]
                : f \in Perms(Len(m.ports)), g \in Perms(Len(m.cells))}

\* node set, wire set and metrics of the whole request on document d
Result(d) ==
    LET gs == ParseGates(d)
        ws == ParseWires(d)
    IN  [nodes |-> Range(gs), wires |-> Range(ws),
         stats |-> Stats(gs, ws, GateBreakdown(gs), MaxDepth(gs, ws),
                         MaxFanout(gs, ws))]

\* C9: every document listing the same ports and cells in another order gives
\* the same node set, wire set and metrics (stated for graphs of distinct ids,
\* so that a failure owes nothing to C6).
C9_ListingOrderIrrelevant ==
    (Done /\ DistinctIds) =>
        \A d \in Reorderings(doc) :
            Result(d) = [nodes |-> Range(response.gates),
                         wires |-> Range(response.wires),
                         stats |-> response.stats]

(***************************************************************************)
(* Termination of the traversal.                                           *)
(***************************************************************************)
NoRepeat(s) == \A i, j \in 1..Len(s) : i # j => s[i] # s[j]

\* C10: no node enters the worklist twice, and the traversal reaches the
\* response for every document, cyclic or not.
C10_TraversalTerminates == [](NoRepeat(enqueued)) /\ <>(pc = "done")

\* C10 witness: the response of a graph in which a visited node leads into a
\* cycle (a node whose in-degree never reaches 0), without driver conflict.
C10_Witness ==
    /\ Done
    /\ DistinctIds
    /\ \A net \in Nets : Cardinality(Drivers(net)) <= 1
    /\ enqueued # <<>>
    /\ wires # <<>>
    /\ \E k \in 1..Len(wires) : /\ wires[k].from \in Range(enqueued)
                                 /\ in_degree[wires[k].to] > 0

====
